---- MODULE Spec2Model ----
(***************************************************************************)
(* Model of package retry (src/retry/retry.go): the retrying               *)
(* http.RoundTripper.  One operation is one call of Transport.RoundTrip;   *)
(* the underlying transport, the Retryer, the Delayer, the Logger and the  *)
(* response bodies are the environment.                                    *)
(*                                                                         *)
(* The source file holds two revisions of the package.  They differ in the *)
(* value returned on Abort (line 112: resp, line 263: nil) and in how the  *)
(* Logger nil check is written (logf, line 138, against inline checks).    *)
(* The variable build says which revision runs.                            *)
(***************************************************************************)
EXTENDS Integers, Sequences, FiniteSets, TLC

VARIABLES
    build,          \* which revision of RoundTrip is compiled (1 or 2)
    clock,          \* the value now() returns
    t,              \* t[p]: the Transport value operation p runs on
    pc,             \* pc[p]: position of operation p inside RoundTrip
    req,            \* req[p]: the request RoundTrip was called with
    retryer,        \* local retryer
    start,          \* local start
    count,          \* loop variable count
    resp,           \* local resp
    err,            \* local err
    attempt,        \* local attempt
    retry,          \* local retry
    retryErr,       \* local retryErr
    result,         \* what RoundTrip returned
    sent,           \* request handed to t.Next.RoundTrip by the latest call
    open,           \* ids of the response bodies not closed yet
    drained,        \* outcome of the latest io.Copy on a body
    policyArg,      \* Attempt handed to the latest Retryer call
    delayArg,       \* Attempt handed to the latest Delayer call
    starts,         \* Start values the Retryer has seen
    transportCalls, \* number of t.Next.RoundTrip calls issued
    policyCalls,    \* number of Retryer calls
    delayCalls,     \* number of Delayer calls
    retries,        \* number of decisions that were neither Ignore nor Abort
    printed,        \* kinds of message handed to Logger.Printf
    trace,          \* calls made to the collaborators, in order
    running,        \* collaborator calls that have not returned yet
    script          \* transport results and decisions, by attempt (paired runs)

vars == <<build, clock, t, pc, req, retryer, start, count, resp, err, attempt,
          retry, retryErr, result, sent, open, drained, policyArg, delayArg,
          starts, transportCalls, policyCalls, delayCalls, retries, printed,
          trace, running, script>>

(***************************************************************************)
(* Bounds of the model                                                     *)
(***************************************************************************)
MaxCount == 3
MaxClock == 1

Procs == {1, 2}

(***************************************************************************)
(* Program constants and types                                             *)
(***************************************************************************)
bodyReadLimit == 4096

\* buffer of the copy loop behind io.Copy(ioutil.Discard, ...)
copyBufSize == 8 * 1024

Ignore == 0
Retry == 1
Abort == 2

\* a Decision is an int: 3 stands for every value that is no named constant
Decision == {Ignore, Retry, Abort, 3}

NilErr == [from |-> "nil", n |-> 0]
NextErr(k) == [from |-> "Next", n |-> k]
RetryerErr(k) == [from |-> "Retryer", n |-> k]

NilResp == [id |-> 0, len |-> 0, readErrAt |-> -1]
Response(k, len, readErrAt) == [id |-> k, len |-> len, readErrAt |-> readErrAt]

Attempt(s, c, e, rq, rs) ==
    [Start |-> s, Count |-> c, Err |-> e, Request |-> rq, Response |-> rs]

NoAttempt == Attempt(0, 0, NilErr, 0, NilResp)
NoResult == [returned |-> FALSE, resp |-> NilResp, err |-> NilErr]
Returned(rs, e) == [returned |-> TRUE, resp |-> rs, err |-> e]
NoDrain == [id |-> 0, n |-> 0, err |-> FALSE]

TransportConfig == [Delay : BOOLEAN, Retry : BOOLEAN, Logger : BOOLEAN]

now == clock

Min(a, b) == IF a < b THEN a ELSE b

(***************************************************************************)
(* Inputs the environment can produce                                      *)
(***************************************************************************)
BodyLens == {100, 5000}
ReadErrAts == {-1, 50}

Responses(k) ==
    {NilResp} \cup {Response(k, l, f) : l \in BodyLens, f \in ReadErrAts}
TransportErrs(k) == {NilErr, NextErr(k)}
Decisions == Decision
RetryerErrs(k) == {NilErr, RetryerErr(k)}

(***************************************************************************)
(* logf: Printf on the Logger when there is one                            *)
(***************************************************************************)
\* logf without the nil check: Printf is called on a nil Logger
logf_NoNilCheck(p, kind) ==
    [printed EXCEPT ![p] = @ \cup {kind}]

logf(p, kind) ==
    IF t[p].Logger THEN [printed EXCEPT ![p] = @ \cup {kind}] ELSE printed

(***************************************************************************)
(* io.Copy(ioutil.Discard, io.LimitReader(resp.Body, bodyReadLimit))       *)
(***************************************************************************)
\* Body.Read(buf) at offset pos with len(buf) = want
BodyRead(b, pos, want) ==
    LET end == IF b.readErrAt >= 0 THEN Min(b.len, b.readErrAt) ELSE b.len
    IN  IF pos < end
        THEN [n |-> Min(want, end - pos), err |-> "nil"]
        ELSE IF b.readErrAt >= 0 /\ b.readErrAt <= b.len
             THEN [n |-> 0, err |-> "error"]
             ELSE [n |-> 0, err |-> "EOF"]

RECURSIVE CopyLimited(_, _, _)
CopyLimited(b, pos, N) ==
    IF N <= 0
    THEN [n |-> pos, err |-> FALSE]
    ELSE LET rd == BodyRead(b, pos, Min(copyBufSize, N))
         IN  IF rd.err = "EOF" THEN [n |-> pos + rd.n, err |-> FALSE]
             ELSE IF rd.err = "error" THEN [n |-> pos + rd.n, err |-> TRUE]
             ELSE CopyLimited(b, pos + rd.n, N - rd.n)

(***************************************************************************)
(* Initial states                                                          *)
(***************************************************************************)
Setup ==
    /\ build \in {1, 2}
    /\ clock = 0
    /\ t \in [Procs -> TransportConfig]
    /\ pc = [p \in Procs |-> "idle"]
    /\ req = [p \in Procs |-> p]
    /\ retryer = [p \in Procs |-> "nil"]
    /\ start = [p \in Procs |-> 0]
    /\ count = [p \in Procs |-> 0]
    /\ resp = [p \in Procs |-> NilResp]
    /\ err = [p \in Procs |-> NilErr]
    /\ attempt = [p \in Procs |-> NoAttempt]
    /\ retry = [p \in Procs |-> Ignore]
    /\ retryErr = [p \in Procs |-> NilErr]
    /\ result = [p \in Procs |-> NoResult]
    /\ sent = [p \in Procs |-> 0]
    /\ open = [p \in Procs |-> {}]
    /\ drained = [p \in Procs |-> NoDrain]
    /\ policyArg = [p \in Procs |-> NoAttempt]
    /\ delayArg = [p \in Procs |-> NoAttempt]
    /\ starts = [p \in Procs |-> {}]
    /\ transportCalls = [p \in Procs |-> 0]
    /\ policyCalls = [p \in Procs |-> 0]
    /\ delayCalls = [p \in Procs |-> 0]
    /\ retries = [p \in Procs |-> 0]
    /\ printed = [p \in Procs |-> {}]
    /\ trace = [p \in Procs |-> << >>]
    /\ running = [p \in Procs |-> {}]
    /\ script = [transport |-> << >>, policy |-> << >>]

\* the operations share one Transport configuration
Init ==
    /\ Setup
    /\ t[2] = t[1]

(***************************************************************************)
(* Steps of Transport.RoundTrip, for operation p                           *)
(***************************************************************************)
\* Call without the fallback: a nil t.Retry stays nil
Call_NoDefault(p) ==
    /\ pc[p] = "idle"
    /\ retryer' = [retryer EXCEPT ![p] = IF t[p].Retry THEN "t.Retry" ELSE "nil"]
    /\ start' = [start EXCEPT ![p] = now]
    /\ count' = [count EXCEPT ![p] = 1]
    /\ pc' = [pc EXCEPT ![p] = "loop"]
    /\ UNCHANGED <<build, clock, t, req, resp, err, attempt, retry, retryErr, result, sent, open, drained, policyArg, delayArg, starts, transportCalls, policyCalls, delayCalls, retries, printed, trace, running>>

\* the caller enters RoundTrip: retryer, start and the loop variable are set
Call(p) ==
    /\ pc[p] = "idle"
    /\ retryer' = [retryer EXCEPT ![p] = IF t[p].Retry THEN "t.Retry" ELSE "DefaultRetryer"]
    /\ start' = [start EXCEPT ![p] = now]
    /\ count' = [count EXCEPT ![p] = 1]
    /\ pc' = [pc EXCEPT ![p] = "loop"]
    /\ UNCHANGED <<build, clock, t, req, resp, err, attempt, retry, retryErr, result, sent, open, drained, policyArg, delayArg, starts, transportCalls, policyCalls, delayCalls, retries, printed, trace, running>>

\* Perform under a lock shared by all operations of the package
Perform_Serialized(p) ==
    /\ pc[p] = "loop"
    /\ \A q \in Procs \ {p} : "Next" \notin running[q]
    /\ printed' = IF count[p] > 1 THEN logf(p, "retrying") ELSE printed
    /\ sent' = [sent EXCEPT ![p] = req[p]]
    /\ transportCalls' = [transportCalls EXCEPT ![p] = @ + 1]
    /\ trace' = [trace EXCEPT ![p] = Append(@, <<"Next", count[p]>>)]
    /\ pc' = [pc EXCEPT ![p] = "transport"]
    /\ running' = [running EXCEPT ![p] = @ \cup {"Next"}]
    /\ UNCHANGED <<build, clock, t, req, retryer, start, count, resp, err, attempt, retry, retryErr, result, open, drained, policyArg, delayArg, starts, policyCalls, delayCalls, retries>>

\* Perform that sends a copy of the request on every retry
Perform_ClonesRequest(p) ==
    /\ pc[p] = "loop"
    /\ printed' = IF count[p] > 1 THEN logf(p, "retrying") ELSE printed
    /\ sent' = [sent EXCEPT ![p] = IF count[p] > 1 THEN req[p] + 10 * count[p] ELSE req[p]]
    /\ transportCalls' = [transportCalls EXCEPT ![p] = @ + 1]
    /\ trace' = [trace EXCEPT ![p] = Append(@, <<"Next", count[p]>>)]
    /\ pc' = [pc EXCEPT ![p] = "transport"]
    /\ running' = [running EXCEPT ![p] = @ \cup {"Next"}]
    /\ UNCHANGED <<build, clock, t, req, retryer, start, count, resp, err, attempt, retry, retryErr, result, open, drained, policyArg, delayArg, starts, policyCalls, delayCalls, retries>>

\* top of the loop body: t.Next.RoundTrip(req) is called
Perform(p) ==
    /\ pc[p] = "loop"
    /\ printed' = IF count[p] > 1 THEN logf(p, "retrying") ELSE printed
    /\ sent' = [sent EXCEPT ![p] = req[p]]
    /\ transportCalls' = [transportCalls EXCEPT ![p] = @ + 1]
    /\ trace' = [trace EXCEPT ![p] = Append(@, <<"Next", count[p]>>)]
    /\ pc' = [pc EXCEPT ![p] = "transport"]
    /\ running' = [running EXCEPT ![p] = @ \cup {"Next"}]
    /\ UNCHANGED <<build, clock, t, req, retryer, start, count, resp, err, attempt, retry, retryErr, result, open, drained, policyArg, delayArg, starts, policyCalls, delayCalls, retries>>
\* Collect with the Attempt stamped with the time of the attempt
Collect_StartNow(p, r, e) ==
    /\ pc[p] = "transport"
    /\ resp' = [resp EXCEPT ![p] = r]
    /\ err' = [err EXCEPT ![p] = e]
    /\ open' = [open EXCEPT ![p] = IF r # NilResp THEN @ \cup {r.id} ELSE @]
    /\ printed' = IF e # NilErr THEN logf(p, "request error") ELSE printed
    /\ attempt' = [attempt EXCEPT ![p] = Attempt(now, count[p], e, req[p], r)]
    /\ pc' = [pc EXCEPT ![p] = "evaluate"]
    /\ running' = [running EXCEPT ![p] = @ \ {"Next"}]
    /\ UNCHANGED <<build, clock, t, req, retryer, start, count, retry, retryErr, result, sent, drained, policyArg, delayArg, starts, transportCalls, policyCalls, delayCalls, retries, trace>>

\* Collect that returns to the caller when the transport failed
Collect_ReturnsOnError(p, r, e) ==
    /\ pc[p] = "transport"
    /\ resp' = [resp EXCEPT ![p] = r]
    /\ err' = [err EXCEPT ![p] = e]
    /\ open' = [open EXCEPT ![p] = IF r # NilResp THEN @ \cup {r.id} ELSE @]
    /\ printed' = IF e # NilErr THEN logf(p, "request error") ELSE printed
    /\ attempt' = [attempt EXCEPT ![p] = Attempt(start[p], count[p], e, req[p], r)]
    /\ result' = [result EXCEPT ![p] = IF e # NilErr THEN Returned(r, e) ELSE @]
    /\ pc' = [pc EXCEPT ![p] = IF e # NilErr THEN "done" ELSE "evaluate"]
    /\ running' = [running EXCEPT ![p] = @ \ {"Next"}]
    /\ UNCHANGED <<build, clock, t, req, retryer, start, count, retry, retryErr, sent, drained, policyArg, delayArg, starts, transportCalls, policyCalls, delayCalls, retries, trace>>

\* t.Next.RoundTrip returns (r, e); the attempt is collected
Collect(p, r, e) ==
    /\ pc[p] = "transport"
    /\ resp' = [resp EXCEPT ![p] = r]
    /\ err' = [err EXCEPT ![p] = e]
    /\ open' = [open EXCEPT ![p] = IF r # NilResp THEN @ \cup {r.id} ELSE @]
    /\ printed' = IF e # NilErr THEN logf(p, "request error") ELSE printed
    /\ attempt' = [attempt EXCEPT ![p] = Attempt(start[p], count[p], e, req[p], r)]
    /\ pc' = [pc EXCEPT ![p] = "evaluate"]
    /\ running' = [running EXCEPT ![p] = @ \ {"Next"}]
    /\ UNCHANGED <<build, clock, t, req, retryer, start, count, retry, retryErr, result, sent, drained, policyArg, delayArg, starts, transportCalls, policyCalls, delayCalls, retries, trace>>

\* retryer(attempt) is called and returns (d, re)
Evaluate(p, d, re) ==
    /\ pc[p] = "evaluate"
    /\ policyArg' = [policyArg EXCEPT ![p] = attempt[p]]
    /\ starts' = [starts EXCEPT ![p] = @ \cup {attempt[p].Start}]
    /\ policyCalls' = [policyCalls EXCEPT ![p] = @ + 1]
    /\ retry' = [retry EXCEPT ![p] = d]
    /\ retryErr' = [retryErr EXCEPT ![p] = re]
    /\ retries' = [retries EXCEPT ![p] = IF d \in {Ignore, Abort} THEN @ ELSE @ + 1]
    /\ printed' = IF re # NilErr THEN logf(p, "retryer error") ELSE printed
    /\ trace' = [trace EXCEPT ![p] = Append(@, <<retryer[p], attempt[p].Count>>)]
    /\ pc' = [pc EXCEPT ![p] = "decided"]
    /\ UNCHANGED <<build, clock, t, req, retryer, start, count, resp, err, attempt, result, sent, open, drained, delayArg, transportCalls, delayCalls, running>>
\* ReturnIgnore that drops the transport error when there is a response
ReturnIgnore_DropsErr(p) ==
    /\ pc[p] = "decided"
    /\ retry[p] = Ignore
    /\ result' = [result EXCEPT ![p] =
                    Returned(resp[p], IF resp[p] # NilResp THEN NilErr ELSE err[p])]
    /\ pc' = [pc EXCEPT ![p] = "done"]
    /\ UNCHANGED <<build, clock, t, req, retryer, start, count, resp, err, attempt, retry, retryErr, sent, open, drained, policyArg, delayArg, starts, transportCalls, policyCalls, delayCalls, retries, printed, trace, running>>

\* ReturnIgnore that returns the Retryer's error when there is one
ReturnIgnore_SurfacesRetryErr(p) ==
    /\ pc[p] = "decided"
    /\ retry[p] = Ignore
    /\ result' = [result EXCEPT ![p] =
                    Returned(resp[p], IF retryErr[p] # NilErr THEN retryErr[p] ELSE err[p])]
    /\ pc' = [pc EXCEPT ![p] = "done"]
    /\ UNCHANGED <<build, clock, t, req, retryer, start, count, resp, err, attempt, retry, retryErr, sent, open, drained, policyArg, delayArg, starts, transportCalls, policyCalls, delayCalls, retries, printed, trace, running>>

\* ReturnIgnore as the default of a switch: every value that is neither Retry
\* nor Abort returns
ReturnIgnore_Default(p) ==
    /\ pc[p] = "decided"
    /\ retry[p] \notin {Retry, Abort}
    /\ result' = [result EXCEPT ![p] = Returned(resp[p], err[p])]
    /\ pc' = [pc EXCEPT ![p] = "done"]
    /\ UNCHANGED <<build, clock, t, req, retryer, start, count, resp, err, attempt, retry, retryErr, sent, open, drained, policyArg, delayArg, starts, transportCalls, policyCalls, delayCalls, retries, printed, trace, running>>

\* if retry == Ignore { return resp, err }
ReturnIgnore(p) ==
    /\ pc[p] = "decided"
    /\ retry[p] = Ignore
    /\ result' = [result EXCEPT ![p] = Returned(resp[p], err[p])]
    /\ pc' = [pc EXCEPT ![p] = "done"]
    /\ UNCHANGED <<build, clock, t, req, retryer, start, count, resp, err, attempt, retry, retryErr, sent, open, drained, policyArg, delayArg, starts, transportCalls, policyCalls, delayCalls, retries, printed, trace, running>>

\* ReturnAbort without the return: the Abort branch logs and goes on
ReturnAbort_FallsThrough(p) ==
    /\ pc[p] = "decided"
    /\ retry[p] # Ignore
    /\ retry[p] = Abort
    /\ printed' = logf(p, "aborting")
    /\ pc' = [pc EXCEPT ![p] = "delay"]
    /\ UNCHANGED <<build, clock, t, req, retryer, start, count, resp, err, attempt, retry, retryErr, result, sent, open, drained, policyArg, delayArg, starts, transportCalls, policyCalls, delayCalls, retries, trace, running>>

\* if retry == Abort { return resp, retryErr }  (line 112)
\*                   { return nil, retryErr }   (line 263)
ReturnAbort(p) ==
    /\ pc[p] = "decided"
    /\ retry[p] # Ignore
    /\ retry[p] = Abort
    /\ printed' = logf(p, "aborting")
    /\ result' = [result EXCEPT ![p] =
                    Returned(IF build = 1 THEN resp[p] ELSE NilResp, retryErr[p])]
    /\ pc' = [pc EXCEPT ![p] = "done"]
    /\ UNCHANGED <<build, clock, t, req, retryer, start, count, resp, err, attempt, retry, retryErr, sent, open, drained, policyArg, delayArg, starts, transportCalls, policyCalls, delayCalls, retries, trace, running>>

\* DrainCopy that returns the copy error to the caller
Drain_ReturnsCopyErr(p) ==
    /\ pc[p] = "decided"
    /\ retry[p] # Ignore
    /\ retry[p] # Abort
    /\ resp[p] # NilResp
    /\ LET c == CopyLimited(resp[p], 0, bodyReadLimit)
       IN  /\ drained' = [drained EXCEPT ![p] = [id |-> resp[p].id, n |-> c.n, err |-> c.err]]
           /\ printed' = IF c.err THEN logf(p, "error reading response body") ELSE printed
           /\ pc' = [pc EXCEPT ![p] = IF c.err THEN "done" ELSE "close"]
           /\ result' = [result EXCEPT ![p] =
                           IF c.err THEN Returned(NilResp, [from |-> "Copy", n |-> count[p]]) ELSE @]
    /\ trace' = [trace EXCEPT ![p] = Append(@, <<"Copy", resp[p].id>>)]
    /\ UNCHANGED <<build, clock, t, req, retryer, start, count, resp, err, attempt, retry, retryErr, sent, open, policyArg, delayArg, starts, transportCalls, policyCalls, delayCalls, retries, running>>

\* Drain with the limit off by one
Drain_OffByOne(p) ==
    /\ pc[p] = "decided"
    /\ retry[p] # Ignore
    /\ retry[p] # Abort
    /\ resp[p] # NilResp
    /\ LET c == CopyLimited(resp[p], 0, bodyReadLimit + 1)
       IN  /\ drained' = [drained EXCEPT ![p] = [id |-> resp[p].id, n |-> c.n, err |-> c.err]]
           /\ printed' = IF c.err THEN logf(p, "error reading response body") ELSE printed
    /\ trace' = [trace EXCEPT ![p] = Append(@, <<"Copy", resp[p].id>>)]
    /\ pc' = [pc EXCEPT ![p] = "close"]
    /\ UNCHANGED <<build, clock, t, req, retryer, start, count, resp, err, attempt, retry, retryErr, result, sent, open, policyArg, delayArg, starts, transportCalls, policyCalls, delayCalls, retries, running>>

\* if resp != nil { io.Copy(ioutil.Discard, io.LimitReader(resp.Body, bodyReadLimit)) ...
Drain(p) ==
    /\ pc[p] = "decided"
    /\ retry[p] # Ignore
    /\ retry[p] # Abort
    /\ resp[p] # NilResp
    /\ LET c == CopyLimited(resp[p], 0, bodyReadLimit)
       IN  /\ drained' = [drained EXCEPT ![p] = [id |-> resp[p].id, n |-> c.n, err |-> c.err]]
           /\ printed' = IF c.err THEN logf(p, "error reading response body") ELSE printed
    /\ trace' = [trace EXCEPT ![p] = Append(@, <<"Copy", resp[p].id>>)]
    /\ pc' = [pc EXCEPT ![p] = "close"]
    /\ UNCHANGED <<build, clock, t, req, retryer, start, count, resp, err, attempt, retry, retryErr, result, sent, open, policyArg, delayArg, starts, transportCalls, policyCalls, delayCalls, retries, running>>
\* Close that leaves the body open when the transport also returned an error
Close_OnlyWithoutErr(p) ==
    /\ pc[p] = "close"
    /\ open' = [open EXCEPT ![p] = IF err[p] # NilErr THEN @ ELSE @ \ {resp[p].id}]
    /\ trace' = [trace EXCEPT ![p] = Append(@, <<"Close", resp[p].id>>)]
    /\ pc' = [pc EXCEPT ![p] = "delay"]
    /\ UNCHANGED <<build, clock, t, req, retryer, start, count, resp, err, attempt, retry, retryErr, result, sent, drained, policyArg, delayArg, starts, transportCalls, policyCalls, delayCalls, retries, printed, running>>

\* ... resp.Body.Close() }
Close(p) ==
    /\ pc[p] = "close"
    /\ open' = [open EXCEPT ![p] = @ \ {resp[p].id}]
    /\ trace' = [trace EXCEPT ![p] = Append(@, <<"Close", resp[p].id>>)]
    /\ pc' = [pc EXCEPT ![p] = "delay"]
    /\ UNCHANGED <<build, clock, t, req, retryer, start, count, resp, err, attempt, retry, retryErr, result, sent, drained, policyArg, delayArg, starts, transportCalls, policyCalls, delayCalls, retries, printed, running>>

\* resp == nil: nothing to drain
SkipDrain(p) ==
    /\ pc[p] = "decided"
    /\ retry[p] # Ignore
    /\ retry[p] # Abort
    /\ resp[p] = NilResp
    /\ pc' = [pc EXCEPT ![p] = "delay"]
    /\ UNCHANGED <<build, clock, t, req, retryer, start, count, resp, err, attempt, retry, retryErr, result, sent, open, drained, policyArg, delayArg, starts, transportCalls, policyCalls, delayCalls, retries, printed, trace, running>>
\* NextIteration with a cap of two attempts built into the loop
NextIteration_Capped(p) ==
    /\ count[p] < MaxCount
    /\ count' = [count EXCEPT ![p] = @ + 1]
    /\ resp' = [resp EXCEPT ![p] = NilResp]
    /\ err' = [err EXCEPT ![p] = NilErr]
    /\ attempt' = [attempt EXCEPT ![p] = NoAttempt]
    /\ retry' = [retry EXCEPT ![p] = Ignore]
    /\ retryErr' = [retryErr EXCEPT ![p] = NilErr]
    /\ drained' = [drained EXCEPT ![p] = NoDrain]
    /\ policyArg' = [policyArg EXCEPT ![p] = NoAttempt]
    /\ delayArg' = [delayArg EXCEPT ![p] = NoAttempt]
    /\ pc' = [pc EXCEPT ![p] = IF count[p] >= 2 THEN "done" ELSE "loop"]

\* count++: the variables declared in the loop body go out of scope
NextIteration(p) ==
    /\ count[p] < MaxCount
    /\ count' = [count EXCEPT ![p] = @ + 1]
    /\ resp' = [resp EXCEPT ![p] = NilResp]
    /\ err' = [err EXCEPT ![p] = NilErr]
    /\ attempt' = [attempt EXCEPT ![p] = NoAttempt]
    /\ retry' = [retry EXCEPT ![p] = Ignore]
    /\ retryErr' = [retryErr EXCEPT ![p] = NilErr]
    /\ drained' = [drained EXCEPT ![p] = NoDrain]
    /\ policyArg' = [policyArg EXCEPT ![p] = NoAttempt]
    /\ delayArg' = [delayArg EXCEPT ![p] = NoAttempt]
    /\ pc' = [pc EXCEPT ![p] = "loop"]
\* DelayCall that starts the Delayer and does not wait for it
DelayCall_Async(p) ==
    /\ pc[p] = "delay"
    /\ t[p].Delay
    /\ printed' = logf(p, "delaying before retry")
    /\ delayCalls' = [delayCalls EXCEPT ![p] = @ + 1]
    /\ trace' = [trace EXCEPT ![p] = Append(@, <<"Delay", attempt[p].Count>>)]
    /\ running' = [running EXCEPT ![p] = @ \cup {"Delay"}]
    /\ NextIteration(p)
    /\ UNCHANGED <<build, clock, t, req, retryer, start, result, sent, open, starts, transportCalls, policyCalls, retries>>

\* DelayCall that hands the Delayer an Attempt of the coming attempt
DelayCall_NextAttempt(p) ==
    /\ pc[p] = "delay"
    /\ t[p].Delay
    /\ printed' = logf(p, "delaying before retry")
    /\ delayArg' = [delayArg EXCEPT ![p] = Attempt(start[p], count[p] + 1, NilErr, req[p], NilResp)]
    /\ delayCalls' = [delayCalls EXCEPT ![p] = @ + 1]
    /\ trace' = [trace EXCEPT ![p] = Append(@, <<"Delay", attempt[p].Count>>)]
    /\ pc' = [pc EXCEPT ![p] = "delaying"]
    /\ running' = [running EXCEPT ![p] = @ \cup {"Delay"}]
    /\ UNCHANGED <<build, clock, t, req, retryer, start, count, resp, err, attempt, retry, retryErr, result, sent, open, drained, policyArg, starts, transportCalls, policyCalls, retries>>

\* if t.Delay != nil { t.Delay(attempt) ...
DelayCall(p) ==
    /\ pc[p] = "delay"
    /\ t[p].Delay
    /\ printed' = logf(p, "delaying before retry")
    /\ delayArg' = [delayArg EXCEPT ![p] = attempt[p]]
    /\ delayCalls' = [delayCalls EXCEPT ![p] = @ + 1]
    /\ trace' = [trace EXCEPT ![p] = Append(@, <<"Delay", attempt[p].Count>>)]
    /\ pc' = [pc EXCEPT ![p] = "delaying"]
    /\ running' = [running EXCEPT ![p] = @ \cup {"Delay"}]
    /\ UNCHANGED <<build, clock, t, req, retryer, start, count, resp, err, attempt, retry, retryErr, result, sent, open, drained, policyArg, starts, transportCalls, policyCalls, retries>>

\* ... t.Delay returns }
DelayReturn(p) ==
    /\ pc[p] = "delaying"
    /\ NextIteration(p)
    /\ running' = [running EXCEPT ![p] = @ \ {"Delay"}]
    /\ UNCHANGED <<build, clock, t, req, retryer, start, result, sent, open, starts, transportCalls, policyCalls, delayCalls, retries, printed, trace>>
\* SkipDelay that gives up retrying when there is no Delayer
SkipDelay_Returns(p) ==
    /\ pc[p] = "delay"
    /\ ~t[p].Delay
    /\ result' = [result EXCEPT ![p] = Returned(resp[p], err[p])]
    /\ pc' = [pc EXCEPT ![p] = "done"]
    /\ UNCHANGED <<build, clock, t, req, retryer, start, count, resp, err, attempt, retry, retryErr, sent, open, drained, policyArg, delayArg, starts, transportCalls, policyCalls, delayCalls, retries, printed, trace, running>>

\* t.Delay == nil: straight to the next iteration
SkipDelay(p) ==
    /\ pc[p] = "delay"
    /\ ~t[p].Delay
    /\ NextIteration(p)
    /\ UNCHANGED <<build, clock, t, req, retryer, start, result, sent, open, starts, transportCalls, policyCalls, delayCalls, retries, printed, trace, running>>

\* time passes
Tick ==
    /\ clock < MaxClock
    /\ clock' = clock + 1
    /\ UNCHANGED <<build, t, pc, req, retryer, start, count, resp, err, attempt, retry, retryErr, result, sent, open, drained, policyArg, delayArg, starts, transportCalls, policyCalls, delayCalls, retries, printed, trace, running>>

(***************************************************************************)
(* One operation against an unconstrained environment                      *)
(***************************************************************************)
\* the steps of operation p against an unconstrained environment
Run(p) ==
    \/ Call(p) /\ UNCHANGED script
    \/ Perform(p) /\ UNCHANGED script
    \/ \E r \in Responses(count[p]), e \in TransportErrs(count[p]) :
          Collect(p, r, e) /\ UNCHANGED script
    \/ \E d \in Decisions, re \in RetryerErrs(count[p]) :
          Evaluate(p, d, re) /\ UNCHANGED script
    \/ ReturnIgnore(p) /\ UNCHANGED script
    \/ ReturnAbort(p) /\ UNCHANGED script
    \/ Drain(p) /\ UNCHANGED script
    \/ Close(p) /\ UNCHANGED script
    \/ SkipDrain(p) /\ UNCHANGED script
    \/ DelayCall(p) /\ UNCHANGED script
    \/ DelayReturn(p) /\ UNCHANGED script
    \/ SkipDelay(p) /\ UNCHANGED script

Next ==
    \/ Tick /\ UNCHANGED script
    \/ Run(1)

Spec == Init /\ [][Next]_vars

\* the goroutine of the operation keeps running and its collaborators
\* return; the clock plays no part in the control flow and stands still
FairSpec == Init /\ [][Run(1)]_vars /\ WF_vars(Run(1))

(***************************************************************************)
(* Two runs of RoundTrip, one after the other, against the same transport  *)
(* results and the same decisions: the first run to reach attempt k fixes  *)
(* what the transport and the Retryer answer on attempt k.                 *)
(***************************************************************************)
PairResponses(k) == {NilResp, Response(k, 5000, -1)}
PairDecisions(k) ==
    {<<Ignore, NilErr>>, <<Ignore, RetryerErr(k)>>, <<Retry, NilErr>>,
     <<Abort, NilErr>>, <<Abort, RetryerErr(k)>>}

\* the operation has returned, or stands at the bound of the model
Halted(p) ==
    \/ pc[p] = "done"
    \/ /\ count[p] = MaxCount
       /\ \/ pc[p] = "delaying"
          \/ pc[p] = "delay" /\ ~t[p].Delay

ScriptedCollect(p) ==
    /\ pc[p] = "transport"
    /\ \E r \in PairResponses(count[p]), e \in TransportErrs(count[p]) :
        /\ count[p] <= Len(script.transport) => script.transport[count[p]] = <<r, e>>
        /\ Collect(p, r, e)
        /\ script' = IF count[p] <= Len(script.transport)
                     THEN script
                     ELSE [script EXCEPT !.transport = Append(@, <<r, e>>)]

ScriptedEvaluate(p) ==
    /\ pc[p] = "evaluate"
    /\ \E d \in PairDecisions(count[p]) :
        /\ count[p] <= Len(script.policy) => script.policy[count[p]] = d
        /\ Evaluate(p, d[1], d[2])
        /\ script' = IF count[p] <= Len(script.policy)
                     THEN script
                     ELSE [script EXCEPT !.policy = Append(@, d)]

\* the two runs use Transport values that differ in Delay or in Logger
InitPair ==
    /\ Setup
    /\ t[1].Retry = t[2].Retry
    /\ (t[1].Delay # t[2].Delay) # (t[1].Logger # t[2].Logger)

NextPair ==
    \/ Call(1) /\ UNCHANGED script
    \/ Halted(1) /\ Call(2) /\ UNCHANGED script
    \/ \E p \in Procs : ScriptedCollect(p)
    \/ \E p \in Procs : ScriptedEvaluate(p)
    \/ \E p \in Procs : Perform(p) /\ UNCHANGED script
    \/ \E p \in Procs : ReturnIgnore(p) /\ UNCHANGED script
    \/ \E p \in Procs : ReturnAbort(p) /\ UNCHANGED script
    \/ \E p \in Procs : Drain(p) /\ UNCHANGED script
    \/ \E p \in Procs : Close(p) /\ UNCHANGED script
    \/ \E p \in Procs : SkipDrain(p) /\ UNCHANGED script
    \/ \E p \in Procs : DelayCall(p) /\ UNCHANGED script
    \/ \E p \in Procs : DelayReturn(p) /\ UNCHANGED script
    \/ \E p \in Procs : SkipDelay(p) /\ UNCHANGED script

SpecPair == InitPair /\ [][NextPair]_vars

(***************************************************************************)
(* Two runs one after the other on the same transport results and          *)
(* decisions, where the bodies of the first run may fail to read and the   *)
(* second run gets the same bodies without the read error.                 *)
(***************************************************************************)
DrainResults(k) ==
    {<<NilResp, NextErr(k)>>,
     <<Response(k, 5000, -1), NilErr>>,
     <<Response(k, 5000, 50), NilErr>>,
     <<Response(k, 5000, 50), NextErr(k)>>}

Healthy(r) == [r EXCEPT !.readErrAt = -1]

FailingCollect(p) ==
    /\ pc[p] = "transport"
    /\ \E x \in DrainResults(count[p]) :
        /\ Collect(p, x[1], x[2])
        /\ script' = [script EXCEPT !.transport = Append(@, x)]

HealthyCollect(p) ==
    /\ pc[p] = "transport"
    /\ \E x \in DrainResults(count[p]) :
        /\ x[1] = Healthy(x[1])
        /\ count[p] <= Len(script.transport) =>
              /\ x[1] = Healthy(script.transport[count[p]][1])
              /\ x[2] = script.transport[count[p]][2]
        /\ Collect(p, x[1], x[2])
        /\ UNCHANGED script

NextDrain ==
    \/ Call(1) /\ UNCHANGED script
    \/ Halted(1) /\ Call(2) /\ UNCHANGED script
    \/ FailingCollect(1)
    \/ HealthyCollect(2)
    \/ \E p \in Procs : ScriptedEvaluate(p)
    \/ \E p \in Procs : Perform(p) /\ UNCHANGED script
    \/ \E p \in Procs : ReturnIgnore(p) /\ UNCHANGED script
    \/ \E p \in Procs : ReturnAbort(p) /\ UNCHANGED script
    \/ \E p \in Procs : Drain(p) /\ UNCHANGED script
    \/ \E p \in Procs : Close(p) /\ UNCHANGED script
    \/ \E p \in Procs : SkipDrain(p) /\ UNCHANGED script
    \/ \E p \in Procs : DelayCall(p) /\ UNCHANGED script
    \/ \E p \in Procs : DelayReturn(p) /\ UNCHANGED script
    \/ \E p \in Procs : SkipDelay(p) /\ UNCHANGED script

SpecDrain == Init /\ [][NextDrain]_vars

(***************************************************************************)
(* Two runs one after the other on the same transport results and          *)
(* decisions, one with a Logger and one without.                           *)
(***************************************************************************)
ReplayCollect(p) ==
    /\ pc[p] = "transport"
    /\ \E x \in DrainResults(count[p]) :
        /\ count[p] <= Len(script.transport) => script.transport[count[p]] = x
        /\ Collect(p, x[1], x[2])
        /\ script' = IF count[p] <= Len(script.transport)
                     THEN script
                     ELSE [script EXCEPT !.transport = Append(@, x)]

InitLogger ==
    /\ Setup
    /\ t[1].Logger # t[2].Logger
    /\ t[1].Delay = t[2].Delay
    /\ t[1].Retry = t[2].Retry

NextLogger ==
    \/ Call(1) /\ UNCHANGED script
    \/ Halted(1) /\ Call(2) /\ UNCHANGED script
    \/ \E p \in Procs : ReplayCollect(p)
    \/ \E p \in Procs : ScriptedEvaluate(p)
    \/ \E p \in Procs : Perform(p) /\ UNCHANGED script
    \/ \E p \in Procs : ReturnIgnore(p) /\ UNCHANGED script
    \/ \E p \in Procs : ReturnAbort(p) /\ UNCHANGED script
    \/ \E p \in Procs : Drain(p) /\ UNCHANGED script
    \/ \E p \in Procs : Close(p) /\ UNCHANGED script
    \/ \E p \in Procs : SkipDrain(p) /\ UNCHANGED script
    \/ \E p \in Procs : DelayCall(p) /\ UNCHANGED script
    \/ \E p \in Procs : DelayReturn(p) /\ UNCHANGED script
    \/ \E p \in Procs : SkipDelay(p) /\ UNCHANGED script

SpecLogger == InitLogger /\ [][NextLogger]_vars

(***************************************************************************)
(* Two operations running concurrently on one Transport configuration,     *)
(* each against its own transport results and decisions.                   *)
(***************************************************************************)
MaxConc == 2

ConcResults(k) == {<<NilResp, NextErr(k)>>, <<Response(k, 5000, -1), NilErr>>}
ConcDecisions(k) == {<<Ignore, NilErr>>, <<Retry, NilErr>>, <<Abort, RetryerErr(k)>>}

RunConc(p) ==
    \/ Call(p) /\ UNCHANGED script
    \/ Perform(p) /\ UNCHANGED script
    \/ \E x \in ConcResults(count[p]) : Collect(p, x[1], x[2]) /\ UNCHANGED script
    \/ \E d \in ConcDecisions(count[p]) : Evaluate(p, d[1], d[2]) /\ UNCHANGED script
    \/ ReturnIgnore(p) /\ UNCHANGED script
    \/ ReturnAbort(p) /\ UNCHANGED script
    \/ Drain(p) /\ UNCHANGED script
    \/ Close(p) /\ UNCHANGED script
    \/ SkipDrain(p) /\ UNCHANGED script
    \/ DelayCall(p) /\ UNCHANGED script
    \/ count[p] < MaxConc /\ DelayReturn(p) /\ UNCHANGED script
    \/ count[p] < MaxConc /\ SkipDelay(p) /\ UNCHANGED script

\* now() is read on entry only: time matters while a call is still to come
NextConc ==
    \/ (\E p \in Procs : pc[p] = "idle") /\ Tick /\ UNCHANGED script
    \/ \E p \in Procs : RunConc(p)

\* one Transport with a Retryer configured, used by both operations
InitConc ==
    /\ Init
    /\ t[1].Retry

SpecConc == InitConc /\ [][NextConc]_vars

(***************************************************************************)
(* One operation whose responses have bodies of lengths around             *)
(* bodyReadLimit and around the buffer of the copy, some of which fail to  *)
(* read at, before or after the limit.                                     *)
(***************************************************************************)
CapLens == {0, 1, 4095, 4096, 4097, 5000, 9000}

CapResults(k) ==
    {<<NilResp, NextErr(k)>>}
    \cup {<<Response(k, l, -1), NilErr>> : l \in CapLens}
    \cup {<<Response(k, 5000, f), NilErr>> : f \in {0, 4095, 4096, 4500}}

NextBodies ==
    \/ Call(1) /\ UNCHANGED script
    \/ Perform(1) /\ UNCHANGED script
    \/ \E x \in CapResults(count[1]) : Collect(1, x[1], x[2]) /\ UNCHANGED script
    \/ \E d \in ConcDecisions(count[1]) : Evaluate(1, d[1], d[2]) /\ UNCHANGED script
    \/ ReturnIgnore(1) /\ UNCHANGED script
    \/ ReturnAbort(1) /\ UNCHANGED script
    \/ Drain(1) /\ UNCHANGED script
    \/ Close(1) /\ UNCHANGED script
    \/ SkipDrain(1) /\ UNCHANGED script
    \/ DelayCall(1) /\ UNCHANGED script
    \/ DelayReturn(1) /\ UNCHANGED script
    \/ SkipDelay(1) /\ UNCHANGED script

SpecBodies == Init /\ [][NextBodies]_vars

(***************************************************************************)
(* Properties                                                              *)
(***************************************************************************)
Done(p) == pc[p] = "done"

\* C1: when the Retryer returns Abort, RoundTrip returns a nil response and
\* the Retryer's error, whatever the transport returned on that attempt.
C1_AbortReturnsNilAndRetryerError ==
    \A p \in Procs :
        (Done(p) /\ retry[p] = Abort) => result[p] = Returned(NilResp, retryErr[p])

\* C2: with Retry on attempts 1..N-1 and a terminal decision on attempt N
\* there are exactly N transport calls and N Retryer calls; the Attempt of
\* Retryer call k has Count = k and every Attempt carries the same Start.
C2_AttemptBookkeeping ==
    \A p \in Procs :
        /\ policyArg[p] # NoAttempt => policyArg[p].Count = policyCalls[p]
        /\ Cardinality(starts[p]) <= 1
        /\ Done(p) => /\ transportCalls[p] = retries[p] + 1
                      /\ policyCalls[p] = retries[p] + 1

C2_Witness ==
    /\ Done(1)
    /\ transportCalls[1] = MaxCount
    /\ policyArg[1].Count = MaxCount
    /\ clock > start[1]

\* C3: on Ignore at attempt k RoundTrip returns the response and the error
\* the transport returned on attempt k, unchanged; Ignore on attempt 1 means
\* one transport call.
C3_IgnoreReturnsTransportPair ==
    \A p \in Procs :
        (Done(p) /\ retry[p] = Ignore) =>
            /\ result[p] = Returned(attempt[p].Response, attempt[p].Err)
            /\ attempt[p].Count = transportCalls[p]
            /\ result[p].resp \in Responses(transportCalls[p])
            /\ result[p].err \in TransportErrs(transportCalls[p])
            /\ retries[p] = 0 => transportCalls[p] = 1

C3_Witness ==
    /\ Done(1)
    /\ retry[1] = Ignore
    /\ transportCalls[1] = 2
    /\ result[1].resp.id = 2
    /\ result[1].err = NextErr(2)

\* C4: on Abort the body of a non-nil response is closed before RoundTrip
\* returns.
C4_AbortClosesBody ==
    \A p \in Procs :
        (Done(p) /\ retry[p] = Abort /\ attempt[p].Response # NilResp) =>
            attempt[p].Response.id \notin open[p]

\* C5: on Retry a non-nil response has its body read up to bodyReadLimit and
\* then closed before the next transport call; no retried response is open
\* when the next attempt starts or when RoundTrip returns.
C5_RetryDrainsAndCloses ==
    \A p \in Procs :
        /\ pc[p] \in {"loop", "transport"} => open[p] = {}
        /\ Done(p) => open[p] \subseteq {transportCalls[p]}
        /\ pc[p] = "close" => drained[p].id = resp[p].id
        /\ (pc[p] \in {"delay", "delaying"} /\ resp[p] # NilResp) =>
              /\ resp[p].id \notin open[p]
              /\ drained[p].id = resp[p].id
              /\ drained[p].n <= bodyReadLimit
              /\ ~drained[p].err => drained[p].n = Min(resp[p].len, bodyReadLimit)

C5_Witness ==
    /\ pc[1] = "transport"
    /\ count[1] = 2
    /\ <<"Copy", 1>> = trace[1][3]
    /\ <<"Close", 1>> = trace[1][4]
    /\ "request error" \in printed[1]

\* C6: a configured Delayer is called once per Retry decision, after the
\* drain, with the Attempt the Retryer got; the next transport call waits for
\* it; it is never called for Ignore or Abort, so at return there is one
\* Delayer call less than transport calls.
C6_DelayOncePerRetry ==
    \A p \in Procs :
        /\ delayCalls[p] <= retries[p]
        /\ (t[p].Delay /\ pc[p] # "idle") =>
              delayCalls[p] = IF pc[p] = "delaying" THEN count[p] ELSE count[p] - 1
        /\ pc[p] = "delaying" =>
              /\ delayArg[p] = policyArg[p]
              /\ delayArg[p].Count = count[p]
              /\ delayCalls[p] = retries[p]
              /\ transportCalls[p] = count[p]
              /\ open[p] = {}
              /\ resp[p] # NilResp => drained[p].id = resp[p].id
        /\ (t[p].Delay /\ Done(p)) =>
              /\ delayCalls[p] = transportCalls[p] - 1
              /\ delayCalls[p] = retries[p]

C6_Witness ==
    /\ t[1].Delay
    /\ Done(1)
    /\ delayCalls[1] = 2
    /\ transportCalls[1] = 3

\* C8: Ignore with a non-nil Retryer error returns the transport's response
\* and error; the Retryer's error is not returned.
C8_IgnoreDropsRetryerError ==
    \A p \in Procs :
        (Done(p) /\ retry[p] = Ignore /\ retryErr[p] # NilErr) =>
            /\ result[p].resp = policyArg[p].Response
            /\ result[p].err = policyArg[p].Err
            /\ result[p].err # retryErr[p]

C8_Witness ==
    /\ Done(1)
    /\ retry[1] = Ignore
    /\ retryErr[1] = RetryerErr(1)
    /\ result[1].err = NilErr
    /\ result[1].resp.id = 1

\* C9: RoundTrip returns in an iteration exactly when the Retryer returned
\* Ignore or Abort in it; a transport error alone ends nothing, and after
\* Retry the next transport call is issued.
C9_OnlyTheRetryerEndsTheLoop ==
    /\ [][\A p \in Procs :
            /\ (pc'[p] = "done" /\ pc[p] # "done") =>
                  (pc[p] = "decided" /\ retry[p] \in {Ignore, Abort})
            /\ (pc[p] = "decided" /\ retry[p] \in {Ignore, Abort} /\ pc'[p] # pc[p]) =>
                  pc'[p] = "done"]_vars
    /\ \A k \in 1..(MaxCount - 1) :
          (pc[1] = "decided" /\ retry[1] = Retry /\ count[1] = k)
              ~> (transportCalls[1] = k + 1)

C9_Witness ==
    /\ pc[1] = "transport"
    /\ transportCalls[1] = 2
    /\ "request error" \in printed[1]
    /\ trace[1][3] = <<"Delay", 1>>

\* C10: the loop has no attempt cap: while every decision is Retry RoundTrip
\* does not return, and any number of transport calls is reached.
C10_NoAttemptCap ==
    \A p \in Procs :
        retries[p] = policyCalls[p] => (pc[p] # "done" /\ ~result[p].returned)

C10_Witness ==
    /\ transportCalls[1] = MaxCount
    /\ retries[1] = MaxCount
    /\ pc[1] # "done"

RECURSIVE WithoutDelay(_)
WithoutDelay(tr) ==
    IF tr = << >> THEN << >>
    ELSE IF Head(tr)[1] = "Delay" THEN WithoutDelay(Tail(tr))
    ELSE <<Head(tr)>> \o WithoutDelay(Tail(tr))

\* C7: with Delay nil a Retry goes from the drain straight to the next
\* transport call, and the calls of the transport and of the Retryer and the
\* result are those of a run with a Delayer that returns at once.
C7_NilDelayIsNoDelay ==
    \A p \in Procs : \A q \in Procs :
        ~t[p].Delay =>
            /\ pc[p] # "delaying"
            /\ delayCalls[p] = 0
            /\ trace[p] = WithoutDelay(trace[p])
            /\ (t[q].Delay /\ Halted(p) /\ Halted(q)) =>
                  /\ result[p] = result[q]
                  /\ trace[p] = WithoutDelay(trace[q])
                  /\ transportCalls[p] = transportCalls[q]
                  /\ policyCalls[p] = policyCalls[q]
                  /\ open[p] = open[q]

C7_Witness ==
    /\ ~t[1].Delay
    /\ t[2].Delay
    /\ Done(1)
    /\ Done(2)
    /\ transportCalls[2] = MaxCount
    /\ delayCalls[2] = MaxCount - 1
    /\ result[2].resp # NilResp

\* position of a call in the order of one operation: attempt by attempt,
\* and inside an attempt transport, Retryer, copy, close, Delayer
Rank(ev) ==
    5 * ev[2] + CASE ev[1] = "Next" -> 0
                  [] ev[1] = "Copy" -> 2
                  [] ev[1] = "Close" -> 3
                  [] ev[1] = "Delay" -> 4
                  [] OTHER -> 1

\* C12: the steps of attempt N come in the order transport call, decision,
\* drain, delay and are over before the transport call of attempt N+1; at
\* most one transport call is in flight, and none while the Delayer runs.
C12_StrictSequence ==
    \A p \in Procs :
        /\ \A i \in 1..(Len(trace[p]) - 1) : Rank(trace[p][i]) < Rank(trace[p][i + 1])
        /\ \A i \in 2..Len(trace[p]) :
              trace[p][i][1] = "Next" =>
                  /\ trace[p][i - 1][2] = trace[p][i][2] - 1
                  /\ t[p].Delay => trace[p][i - 1][1] = "Delay"
        /\ Cardinality(running[p]) <= 1
        /\ "Next" \in running[p] <=> pc[p] = "transport"
        /\ "Delay" \in running[p] => transportCalls[p] = policyCalls[p]

C12_Witness ==
    /\ pc[1] = "transport"
    /\ running[1] = {"Next"}
    /\ trace[1] = <<<<"Next", 1>>, <<"t.Retry", 1>>, <<"Copy", 1>>,
                    <<"Close", 1>>, <<"Delay", 1>>, <<"Next", 2>>>>

\* C11: an error of the copy that drains a retried body is not propagated:
\* the body is closed, the Delayer is called, the next transport call is
\* issued, and RoundTrip returns what it returns when the copy succeeds.
C11_DrainErrorSwallowed ==
    /\ \A p \in Procs :
          drained[p].err =>
              /\ pc[p] \in {"close", "delay", "delaying"}
              /\ ~result[p].returned
              /\ pc[p] \in {"delay", "delaying"} => open[p] = {}
              /\ pc[p] = "delaying" => delayArg[p].Count = count[p]
    /\ (Halted(1) /\ Halted(2)) =>
          /\ result[1].returned = result[2].returned
          /\ Healthy(result[1].resp) = result[2].resp
          /\ result[1].err = result[2].err
          /\ trace[1] = trace[2]
          /\ transportCalls[1] = transportCalls[2]
          /\ delayCalls[1] = delayCalls[2]
          /\ open[1] = open[2]

C11_Witness ==
    /\ Done(1)
    /\ Done(2)
    /\ transportCalls[1] = 2
    /\ delayCalls[1] = 1
    /\ "error reading response body" \in printed[1]
    /\ "error reading response body" \notin printed[2]
    /\ result[1].resp.id = 2

\* an Attempt without the request, which differs between the two runs
SameButRequest(a, b) == [a EXCEPT !.Request = 0] = [b EXCEPT !.Request = 0]

\* C13: a run without Logger and a run with one make the same transport,
\* Retryer, drain, close and Delayer calls with the same Attempts and return
\* the same; without a Logger nothing is ever printed, on any path.
C13_LoggerChangesNothing ==
    /\ \A p \in Procs : ~t[p].Logger => printed[p] = {}
    /\ (Halted(1) /\ Halted(2)) =>
          /\ result[1] = result[2]
          /\ trace[1] = trace[2]
          /\ transportCalls[1] = transportCalls[2]
          /\ policyCalls[1] = policyCalls[2]
          /\ delayCalls[1] = delayCalls[2]
          /\ open[1] = open[2]
          /\ drained[1] = drained[2]
          /\ SameButRequest(policyArg[1], policyArg[2])
          /\ SameButRequest(delayArg[1], delayArg[2])

C13_Witness ==
    /\ Done(1)
    /\ Done(2)
    /\ ~t[1].Logger
    /\ t[1].Delay
    /\ result[1] = result[2]
    /\ result[1].err = RetryerErr(2)
    /\ printed[2] = {"retrying", "request error", "retryer error", "aborting",
                     "error reading response body", "delaying before retry"}

\* everything one call of RoundTrip holds
Local(p) ==
    <<pc[p], retryer[p], start[p], count[p], resp[p], err[p], attempt[p],
      retry[p], retryErr[p], result[p], sent[p], open[p], drained[p],
      policyArg[p], delayArg[p], starts[p], transportCalls[p], policyCalls[p],
      delayCalls[p], retries[p], printed[p], trace[p], running[p]>>

\* the operation waits for its transport or its Delayer
Blocked(p) == running[p] # {}

\* the operation has returned, or stands at the bound of the concurrent model
HaltedConc(p) ==
    \/ pc[p] = "done"
    \/ /\ count[p] = MaxConc
       /\ \/ pc[p] = "delaying"
          \/ pc[p] = "delay" /\ ~t[p].Delay

\* C14: concurrent RoundTrip calls on one Transport are independent: each
\* counts its attempts from 1 and has its own Start, no step of one changes
\* anything of the other, one that waits for its transport or Delayer does
\* not stop the other, and each returns what its own attempts decide.
C14_OperationsIndependent ==
    /\ [](\A p \in Procs :
            /\ pc[p] # "idle" =>
                  /\ count[p] >= 1
                  /\ transportCalls[p] \in {count[p] - 1, count[p]}
            /\ starts[p] \subseteq {start[p]}
            /\ policyArg[p] # NoAttempt =>
                  /\ policyArg[p].Count = policyCalls[p]
                  /\ policyArg[p].Request = req[p]
                  /\ policyArg[p].Response.id \in {0, transportCalls[p]}
            /\ (Done(p) /\ retry[p] = Ignore) =>
                  result[p] = Returned(policyArg[p].Response, policyArg[p].Err)
            /\ (Done(p) /\ retry[p] = Abort) => result[p].err = retryErr[p]
            /\ \A q \in Procs \ {p} :
                  (Blocked(p) /\ ~HaltedConc(q)) => ENABLED RunConc(q))
    /\ [][\A p \in Procs : \A q \in Procs \ {p} :
            Local(p)' # Local(p) => Local(q)' = Local(q)]_vars

C14_Witness ==
    /\ pc[1] = "delaying"
    /\ count[1] = 1
    /\ start[1] = 0
    /\ Done(2)
    /\ start[2] = 1
    /\ policyArg[2].Count = 2
    /\ result[2].resp.id = 2

\* C15: once the Retryer has returned Ignore or Abort, and the collaborators
\* return, RoundTrip returns; after it has returned the operation makes no
\* further transport, Retryer, drain or Delayer call.
C15_TerminalDecisionReturns ==
    /\ (pc[1] = "decided" /\ retry[1] \in {Ignore, Abort}) ~> Done(1)
    /\ [](Done(1) => (result[1].returned /\ running[1] = {}))
    /\ [][\A p \in Procs :
            Done(p) => /\ Done(p)'
                       /\ trace'[p] = trace[p]
                       /\ result'[p] = result[p]
                       /\ transportCalls'[p] = transportCalls[p]
                       /\ policyCalls'[p] = policyCalls[p]
                       /\ delayCalls'[p] = delayCalls[p]
                       /\ open'[p] = open[p]]_vars

C15_Witness ==
    /\ Done(1)
    /\ retry[1] = Abort
    /\ transportCalls[1] = MaxCount
    /\ delayCalls[1] = MaxCount - 1
    /\ running[1] = {}
    /\ result[1].err = RetryerErr(MaxCount)

\* C16: every transport call and every Attempt of an operation carries the
\* request RoundTrip was called with; the request is never replaced.
C16_SameRequest ==
    /\ [](\A p \in Procs :
            /\ transportCalls[p] > 0 => sent[p] = req[p]
            /\ attempt[p] # NoAttempt => attempt[p].Request = req[p]
            /\ policyArg[p] # NoAttempt => policyArg[p].Request = req[p]
            /\ delayArg[p] # NoAttempt => delayArg[p].Request = req[p])
    /\ [][req' = req]_vars

C16_Witness ==
    /\ pc[1] = "delaying"
    /\ transportCalls[1] = 2
    /\ sent[1] = req[1]
    /\ policyArg[1].Count = 2
    /\ delayArg[1].Request = req[1]

\* the Retryer calls of an operation, in order
RetryerCalls(p) ==
    SelectSeq(trace[p], LAMBDA ev : ev[1] \in {"t.Retry", "DefaultRetryer", "nil"})

\* C17: with t.Retry nil every attempt is decided by DefaultRetryer, never
\* by a nil function; with t.Retry set DefaultRetryer is never called.
C17_DefaultRetryerFallback ==
    \A p \in Procs :
        LET expected == IF t[p].Retry THEN "t.Retry" ELSE "DefaultRetryer"
        IN  /\ pc[p] # "idle" => retryer[p] = expected
            /\ Len(RetryerCalls(p)) = policyCalls[p]
            /\ \A i \in 1..Len(RetryerCalls(p)) :
                  RetryerCalls(p)[i] = <<expected, i>>

C17_Witness ==
    /\ ~t[1].Retry
    /\ Done(1)
    /\ policyCalls[1] = MaxCount
    /\ RetryerCalls(1)[MaxCount] = <<"DefaultRetryer", MaxCount>>

\* number of bytes a body gives before its end or its read error
Readable(b) == IF b.readErrAt >= 0 THEN Min(b.len, b.readErrAt) ELSE b.len

\* C18: the drain reads at most bodyReadLimit (4096) bytes of a retried body
\* of any length: a shorter body to its end, a longer one exactly the limit,
\* and the body is then closed.
C18_DrainIsCapped ==
    \A p \in Procs :
        (pc[p] \in {"close", "delay", "delaying"} /\ resp[p] # NilResp) =>
            /\ drained[p].id = resp[p].id
            /\ drained[p].n <= bodyReadLimit
            /\ drained[p].n = Min(Readable(resp[p]), bodyReadLimit)
            /\ resp[p].readErrAt = -1 =>
                  /\ ~drained[p].err
                  /\ resp[p].len < bodyReadLimit => drained[p].n = resp[p].len
                  /\ resp[p].len > bodyReadLimit => drained[p].n = bodyReadLimit
            /\ drained[p].err <=>
                  (resp[p].readErrAt >= 0 /\ resp[p].readErrAt < bodyReadLimit)
            /\ pc[p] # "close" => resp[p].id \notin open[p]

C18_Witness ==
    /\ pc[1] = "delay"
    /\ resp[1].len = 4097
    /\ drained[1] = [id |-> resp[1].id, n |-> 4096, err |-> FALSE]
    /\ open[1] = {}

\* a Decision that is none of the three named constants
Unnamed(d) == d \in Decision \ {Ignore, Retry, Abort}

\* C19: a decision that is none of Ignore, Retry, Abort is handled as Retry:
\* RoundTrip does not return on it, the response is drained and closed, the
\* Delayer (when set) is called with the attempt, and the next transport call
\* follows.
C19_UnnamedDecisionRetries ==
    /\ [](\A p \in Procs :
            /\ (Done(p) /\ policyCalls[p] > 0) => ~Unnamed(retry[p])
            /\ (Unnamed(retry[p]) /\ pc[p] \in {"delay", "delaying"} /\ resp[p] # NilResp) =>
                  /\ drained[p] = [id |-> resp[p].id,
                                   n |-> Min(Readable(resp[p]), bodyReadLimit),
                                   err |-> drained[p].err]
                  /\ resp[p].id \notin open[p]
            /\ (Unnamed(retry[p]) /\ pc[p] = "delaying") =>
                  /\ t[p].Delay
                  /\ delayArg[p] = attempt[p]
                  /\ delayCalls[p] = count[p])
    /\ [][\A p \in Procs :
            (pc[p] = "decided" /\ Unnamed(retry[p]) /\ pc'[p] # pc[p]) =>
                /\ pc'[p] = IF resp[p] = NilResp THEN "delay" ELSE "close"
                /\ result'[p] = NoResult]_vars
    /\ \A k \in 1..(MaxCount - 1) :
          (pc[1] = "decided" /\ Unnamed(retry[1]) /\ count[1] = k)
              ~> (pc[1] = "transport" /\ count[1] = k + 1 /\ transportCalls[1] = k + 1)

C19_Witness ==
    /\ pc[1] = "delaying"
    /\ Unnamed(retry[1])
    /\ resp[1] # NilResp
    /\ drained[1].id = resp[1].id
    /\ open[1] = {}
    /\ delayArg[1] = attempt[1]
    /\ count[1] = 2

====
